---- MODULE Spec2Model ----
(***************************************************************************)
(* A model of the data-cleaning and profiling pipeline of the analysis     *)
(* portfolio application (src/clean_module.py, src/eda_module.py,          *)
(* src/ai_summary_module.py, src/detect_category.py,                       *)
(* src/guided_chat_module.py) and of the pages that hand a dataset from    *)
(* one stage to the next through st.session_state (src/pages).             *)
(*                                                                         *)
(* Strings are sequences of one-character strings, so that the character   *)
(* level operations of the code (strip, lower, regular expressions) are    *)
(* computed and not assumed.  A missing cell (NaN, None, NaT) is the       *)
(* string "NaN"; every other cell is an integer.                           *)
(***************************************************************************)
EXTENDS Integers, Sequences, FiniteSets, TLC

VARIABLES
    \* --- column-name normalizer, applied as a function -------------------
    nm_pc,        \* "input", "normalized", "renormalized", "eda_normalized"
    nm_cols,      \* the column names handed to clean_data_core
    nm_out,       \* the names clean_data_core gives the table
    nm_again,     \* the names a second normalizer run gives nm_out
    nm_eda,       \* the names the EDA module gives nm_out
    \* --- detect_dataset_category ----------------------------------------
    det_pc,       \* "input", "returned", "shown"
    det_null,     \* TRUE when the argument df is None
    det_cols,     \* df.columns
    det_scores,   \* match_scores, in the order of category_keywords
    det_result,   \* the label returned
    steps_key,    \* show_next_steps: key
    steps_recs,   \* show_next_steps: recs
    \* --- type classification (EDA module, generate_ai_summary) -----------
    cls_pc,       \* "input", "first_pass", "second_pass", "summarized"
    cls_table,    \* the columns: [name, dtype, nunique]
    cat_cols,     \* EDA: cat_cols
    num_cols,     \* EDA: num_cols
    auto_cats,    \* EDA: auto_cats
    sum_cat,      \* generate_ai_summary: cat_cols
    sum_num,      \* generate_ai_summary: num_cols
    sum_dt,       \* generate_ai_summary: datetime_cols
    \* --- clean_data_core / auto_data_clean -------------------------------
    pc,           \* position of the cleaning run
    entry,        \* the entry point called: "core" or "auto"
    arg_null,     \* TRUE when the argument df is None
    given,        \* the caller's table as it was when the call was made
    caller,       \* the caller's table object
    df_before,    \* auto_data_clean: df_before
    df,           \* clean_data_core: its working copy df
    stages,       \* the stages the run has executed, in order
    fill_raised,  \* positions of the columns whose fill raised
    cap_raised,   \* positions of the columns whose capping raised
    warnings,     \* what st.warning was called with
    report,       \* what auto_data_clean shows: metrics and tabs
    \* --- eda_module: the categorical encoder ------------------------------
    enc_pc,       \* "input", "encoded"
    enc_col,      \* the cells of a column of cat_cols
    enc_codes,    \* df_encoded[col]: the codes
    enc_mapping,  \* category_mappings[col]: code -> label
    \* --- generate_ai_summary ----------------------------------------------
    ai_pc,        \* "input", "returned"
    ai_nodata,    \* TRUE when df is None or empty
    ai_reply,     \* what the remote call does: raises, or the text it returns
    ai_summary,   \* the first value returned
    ai_insights,  \* the second value returned
    \* --- guided_chat_module -----------------------------------------------
    chat_on,      \* TRUE once the module is loaded
    chat_history, \* chat_history
    chat_shown,   \* the entries render_chat displayed last
    chat_calls,   \* remote calls issued so far
    chat_errors,  \* error messages displayed so far
    chat_log,     \* the invocations of groq_guided_chat so far, in order
    \* --- the pages and st.session_state --------------------------------
    sess_on,      \* TRUE once the browser session is open
    session,      \* st.session_state: key -> what is stored under it
    sess_page,    \* the page whose script ran last
    sess_outcome, \* how that run ended: "stopped", "raised", "done"
    sess_visits   \* page runs so far

namesVars == <<nm_pc, nm_cols, nm_out, nm_again, nm_eda>>

detVars == <<det_pc, det_null, det_cols, det_scores, det_result,
             steps_key, steps_recs>>

clsVars == <<cls_pc, cls_table, cat_cols, num_cols, auto_cats,
             sum_cat, sum_num, sum_dt>>

cleanVars == <<pc, entry, arg_null, given, caller, df_before, df, stages,
               fill_raised, cap_raised, warnings, report>>

encVars == <<enc_pc, enc_col, enc_codes, enc_mapping>>

aiVars == <<ai_pc, ai_nodata, ai_reply, ai_summary, ai_insights>>

chatVars == <<chat_on, chat_history, chat_shown, chat_calls, chat_errors,
              chat_log>>

sessVars == <<sess_on, session, sess_page, sess_outcome, sess_visits>>

vars == <<namesVars, detVars, clsVars, cleanVars, encVars, aiVars, chatVars,
          sessVars>>

\* What the actions of one component leave alone.
notNames == <<detVars, clsVars, cleanVars, encVars, aiVars, chatVars,
    sessVars>>
notDetect == <<namesVars, clsVars, cleanVars, encVars, aiVars, chatVars,
    sessVars>>
notClassify == <<namesVars, detVars, cleanVars, encVars, aiVars, chatVars,
    sessVars>>
notClean == <<namesVars, detVars, clsVars, encVars, aiVars, chatVars,
    sessVars>>
notEncode == <<namesVars, detVars, clsVars, cleanVars, aiVars, chatVars,
    sessVars>>
notSummary == <<namesVars, detVars, clsVars, cleanVars, encVars, chatVars,
    sessVars>>
notChat == <<namesVars, detVars, clsVars, cleanVars, encVars, aiVars,
    sessVars>>
notSession == <<namesVars, detVars, clsVars, cleanVars, encVars, aiVars,
    chatVars>>

(***************************************************************************)
(* Bounds of the model.                                                    *)
(***************************************************************************)
MaxNameCols == 3
MaxDetectCols == 3
MaxClsCols == 2
MaxRows == 4
MaxCells == 4
MaxEncRows == 4
MaxReplyLines == 6
MaxChatClicks == 7
MaxVisits == 6

(***************************************************************************)
(* Characters.                                                             *)
(***************************************************************************)
LowerLetters ==
    {"a", "b", "c", "d", "e", "f", "g", "h", "i", "j", "k", "l", "m",
     "n", "o", "p", "q", "r", "s", "t", "u", "v", "w", "x", "y", "z"}

DigitChars == {"0", "1", "2", "3", "4", "5", "6", "7", "8", "9"}

UpperLetters ==
    {"A", "B", "C", "D", "E", "F", "G", "H", "I", "J", "K", "L", "M", "N",
     "O", "P", "Q", "R", "S", "T", "U", "V", "W", "X", "Y", "Z"}

Whitespace == {" "}

\* str.lower() on one character.
LowerChar(c) ==
    CASE c = "A" -> "a"
      [] c = "B" -> "b"
      [] c = "C" -> "c"
      [] c = "D" -> "d"
      [] c = "E" -> "e"
      [] c = "F" -> "f"
      [] c = "G" -> "g"
      [] c = "H" -> "h"
      [] c = "I" -> "i"
      [] c = "J" -> "j"
      [] c = "K" -> "k"
      [] c = "L" -> "l"
      [] c = "M" -> "m"
      [] c = "N" -> "n"
      [] c = "O" -> "o"
      [] c = "P" -> "p"
      [] c = "Q" -> "q"
      [] c = "R" -> "r"
      [] c = "S" -> "s"
      [] c = "T" -> "t"
      [] c = "U" -> "u"
      [] c = "V" -> "v"
      [] c = "W" -> "w"
      [] c = "X" -> "x"
      [] c = "Y" -> "y"
      [] c = "Z" -> "z"
      [] OTHER -> c

\* The characters [a-z0-9_] that the replacement r"[^a-z0-9_]" leaves alone.
NameChar(c) == c \in LowerLetters \cup DigitChars \cup {"_"}

\* \w of Python's re module: letters, digits and the underscore.
WordChar(c) == c \in LowerLetters \cup UpperLetters \cup DigitChars \cup {"_"}

(***************************************************************************)
(* String operations on sequences of characters.                           *)
(***************************************************************************)
RECURSIVE LStrip(_, _)
LStrip(s, drop) ==
    IF s # <<>> /\ Head(s) \in drop THEN LStrip(Tail(s), drop) ELSE s

RECURSIVE RStrip(_, _)
RStrip(s, drop) ==
    IF s # <<>> /\ s[Len(s)] \in drop
    THEN RStrip(SubSeq(s, 1, Len(s) - 1), drop)
    ELSE s

\* str.strip(): both ends.
Strip(s, drop) == RStrip(LStrip(s, drop), drop)

\* str.lower()
Lower(s) == [i \in 1..Len(s) |-> LowerChar(s[i])]

\* str.replace(r"[^a-z0-9_]", "_", regex=True)
ReplaceNonName(s) ==
    [i \in 1..Len(s) |-> IF NameChar(s[i]) THEN s[i] ELSE "_"]

\* str.replace(r"__+", "_", regex=True): every run of two or more
\* underscores becomes one underscore.
RECURSIVE CollapseUnderscores(_)
CollapseUnderscores(s) ==
    IF Len(s) < 2 THEN s
    ELSE IF s[1] = "_" /\ s[2] = "_" THEN CollapseUnderscores(Tail(s))
    ELSE <<s[1]>> \o CollapseUnderscores(Tail(s))

\* The decimal digits of a natural number, as f"{n}" prints them.
DigitOf(d) ==
    CASE d = 0 -> "0" [] d = 1 -> "1" [] d = 2 -> "2" [] d = 3 -> "3"
      [] d = 4 -> "4" [] d = 5 -> "5" [] d = 6 -> "6" [] d = 7 -> "7"
      [] d = 8 -> "8" [] d = 9 -> "9"

RECURSIVE Decimal(_)
Decimal(n) ==
    IF n < 10 THEN <<DigitOf(n)>>
    ELSE Decimal(n \div 10) \o <<DigitOf(n % 10)>>

(***************************************************************************)
(* Column-name normalization.                                              *)
(***************************************************************************)
\* The chain of .str calls on one name.
CleanName(name) ==
    Strip(CollapseUnderscores(ReplaceNonName(Lower(Strip(name, Whitespace)))),
          {"_"})

\* The chain applied to a whole column index.
CleanNames(cols) == [i \in 1..Len(cols) |-> CleanName(cols[i])]

\* df.columns.duplicated().any()
HasDuplicates(cols) ==
    \E i, j \in 1..Len(cols) : i < j /\ cols[i] = cols[j]

\* The loop of make_unique_columns: `seen` maps a name to the number of
\* repeats met so far, `done` is unique_cols.
RECURSIVE MakeUniqueFrom(_, _, _, _)
MakeUniqueFrom(cols, i, seen, done) ==
    IF i > Len(cols) THEN done
    ELSE LET col == cols[i] IN
         IF col \notin DOMAIN seen
         THEN MakeUniqueFrom(cols, i + 1, (col :> 0) @@ seen,
                             Append(done, col))
         ELSE LET k == seen[col] + 1 IN
              MakeUniqueFrom(cols, i + 1, (col :> k) @@ seen,
                             Append(done, col \o <<"_">> \o Decimal(k)))

\* A pass that numbers the later occurrences from 2.
make_unique_columns_from_two(cols) ==
    [i \in 1..Len(cols) |->
        LET k == Cardinality({j \in 1..(i - 1) : cols[j] = cols[i]})
        IN IF k = 0 THEN cols[i]
           ELSE cols[i] \o <<"_">> \o Decimal(k + 1)]

make_unique_columns(cols) == MakeUniqueFrom(cols, 1, <<>>, <<>>)

\* The uniqueness pass runs only when the cleaned index has a duplicate.
UniqueIfDuplicated(cols) ==
    IF HasDuplicates(cols) THEN make_unique_columns(cols) ELSE cols

\* The whole normalizer of clean_data_core.
NormalizeColumns(cols) == UniqueIfDuplicated(CleanNames(cols))

(***************************************************************************)
(* The normalizer as a function: inputs and the three applications.        *)
(***************************************************************************)
\* Raw column names fed to the normalizer.
RawNames ==
    { <<"a">>,
      <<"A", " ">>,
      <<"a", "_", "1">>,
      <<"a", "$", "$", "1">>,
      <<"$">>,
      <<"_", "1">>,
      <<"b", " ", "c">> }

\* A column index offered beside those:
\* "Customer Name", "Age", "Income ($)", "Income ($)".
ExampleNames ==
    << <<"C", "u", "s", "t", "o", "m", "e", "r", " ", "N", "a", "m", "e">>,
       <<"A", "g", "e">>,
       <<"I", "n", "c", "o", "m", "e", " ", "(", "$", ")">>,
       <<"I", "n", "c", "o", "m", "e", " ", "(", "$", ")">> >>

RECURSIVE SeqsUpTo(_, _)
SeqsUpTo(S, n) ==
    IF n = 0 THEN {<<>>}
    ELSE LET shorter == SeqsUpTo(S, n - 1) IN
         shorter \cup {Append(s, x) : s \in {t \in shorter : Len(t) = n - 1},
                                      x \in S}

NamesIdle ==
    /\ nm_pc = "idle"
    /\ nm_cols = <<>>
    /\ nm_out = <<>>
    /\ nm_again = <<>>
    /\ nm_eda = <<>>

NamesInit ==
    /\ nm_pc = "input"
    /\ nm_cols \in SeqsUpTo(RawNames, MaxNameCols) \cup {ExampleNames}
    /\ nm_out = <<>>
    /\ nm_again = <<>>
    /\ nm_eda = <<>>

\* clean_data_core names the columns of its copy.
NormalizeNames ==
    /\ nm_pc = "input"
    /\ nm_out' = NormalizeColumns(nm_cols)
    /\ nm_pc' = "normalized"
    /\ UNCHANGED <<nm_cols, nm_again, nm_eda, notNames>>

\* The normalizer applied to its own output.
RenormalizeNames ==
    /\ nm_pc = "normalized"
    /\ nm_again' = NormalizeColumns(nm_out)
    /\ nm_pc' = "renormalized"
    /\ UNCHANGED <<nm_cols, nm_out, nm_eda, notNames>>

\* The EDA module cleans the names of the cleaned table (no uniqueness pass).
EdaNormalizeNames ==
    /\ nm_pc = "renormalized"
    /\ nm_eda' = CleanNames(nm_out)
    /\ nm_pc' = "eda_normalized"
    /\ UNCHANGED <<nm_cols, nm_out, nm_again, notNames>>

NamesNext == NormalizeNames \/ RenormalizeNames \/ EdaNormalizeNames


(***************************************************************************)
(* detect_dataset_category.                                                *)
(***************************************************************************)
category_keywords ==
    <<
      [category |-> "Customer / People",
       keywords |-> <<
            <<"c", "u", "s", "t", "o", "m", "e", "r">>,
            <<"c", "l", "i", "e", "n", "t">>,
            <<"n", "a", "m", "e">>,
            <<"g", "e", "n", "d", "e", "r">>,
            <<"a", "g", "e">>,
            <<"i", "n", "c", "o", "m", "e">>,
            <<"e", "d", "u", "c", "a", "t", "i", "o", "n">>,
            <<"s", "e", "g", "m", "e", "n", "t">>,
            <<"m", "a", "r", "i", "t", "a", "l">>,
            <<"o", "c", "c", "u", "p", "a", "t", "i", "o", "n">> >>],
      [category |-> "Finance / Banking",
       keywords |-> <<
            <<"b", "a", "l", "a", "n", "c", "e">>,
            <<"l", "o", "a", "n">>,
            <<"c", "r", "e", "d", "i", "t">>,
            <<"d", "e", "b", "i", "t">>,
            <<"a", "c", "c", "o", "u", "n", "t">>,
            <<"t", "r", "a", "n", "s", "a", "c", "t", "i", "o", "n">>,
            <<"b", "a", "n", "k">>,
            <<"p", "a", "y", "m", "e", "n", "t">>,
            <<"i", "n", "t", "e", "r", "e", "s", "t">>,
            <<"a", "m", "o", "u", "n", "t">>,
            <<"s", "a", "l", "a", "r", "y">> >>],
      [category |-> "Sales / Retail",
       keywords |-> <<
            <<"p", "r", "o", "d", "u", "c", "t">>,
            <<"s", "a", "l", "e">>,
            <<"p", "r", "i", "c", "e">>,
            <<"d", "i", "s", "c", "o", "u", "n", "t">>,
            <<"r", "e", "v", "e", "n", "u", "e">>,
            <<"p", "r", "o", "f", "i", "t">>,
            <<"c", "a", "t", "e", "g", "o", "r", "y">>,
            <<"s", "t", "o", "r", "e">>,
            <<"r", "e", "g", "i", "o", "n">>,
            <<"q", "u", "a", "n", "t", "i", "t", "y">>,
            <<"b", "r", "a", "n", "d">> >>],
      [category |-> "Healthcare / Medical",
       keywords |-> <<
            <<"p", "a", "t", "i", "e", "n", "t">>,
            <<"d", "i", "s", "e", "a", "s", "e">>,
            <<"d", "i", "a", "g", "n", "o", "s", "i", "s">>,
            <<"t", "r", "e", "a", "t", "m", "e", "n", "t">>,
            <<"d", "o", "c", "t", "o", "r">>,
            <<"h", "o", "s", "p", "i", "t", "a", "l">>,
            <<"m", "e", "d", "i", "c", "a", "l">>,
            <<"s", "y", "m", "p", "t", "o", "m">>,
            <<"t", "e", "s", "t">>,
            <<"r", "e", "s", "u", "l", "t">>,
            <<"l", "a", "b">> >>],
      [category |-> "Technology / Usage",
       keywords |-> <<
            <<"d", "e", "v", "i", "c", "e">>,
            <<"a", "p", "p">>,
            <<"u", "s", "a", "g", "e">>,
            <<"s", "e", "s", "s", "i", "o", "n">>,
            <<"c", "l", "i", "c", "k">>,
            <<"l", "o", "g", "i", "n">>,
            <<"d", "u", "r", "a", "t", "i", "o", "n">>,
            <<"u", "s", "e", "r", "_", "i", "d">>,
            <<"p", "l", "a", "t", "f", "o", "r", "m">>,
            <<"o", "s">>,
            <<"b", "r", "o", "w", "s", "e", "r">> >>],
      [category |-> "Education",
       keywords |-> <<
            <<"s", "t", "u", "d", "e", "n", "t">>,
            <<"g", "r", "a", "d", "e">>,
            <<"s", "c", "h", "o", "o", "l">>,
            <<"e", "x", "a", "m">>,
            <<"t", "e", "a", "c", "h", "e", "r">>,
            <<"c", "o", "u", "r", "s", "e">>,
            <<"s", "u", "b", "j", "e", "c", "t">>,
            <<"m", "a", "r", "k", "s">>,
            <<"a", "t", "t", "e", "n", "d", "a", "n", "c", "e">> >>],
      [category |-> "Operations / Logistics",
       keywords |-> <<
            <<"s", "h", "i", "p", "m", "e", "n", "t">>,
            <<"o", "r", "d", "e", "r">>,
            <<"s", "u", "p", "p", "l", "y">>,
            <<"w", "a", "r", "e", "h", "o", "u", "s", "e">>,
            <<"i", "n", "v", "e", "n", "t", "o", "r", "y">>,
            <<"l", "o", "g", "i", "s", "t", "i", "c">>,
            <<"v", "e", "h", "i", "c", "l", "e">>,
            <<"r", "o", "u", "t", "e">>,
            <<"d", "e", "l", "i", "v", "e", "r", "y">> >>]
    >>

\* Whether position p of s (between s[p] and s[p+1], 0 <= p <= Len(s)) is a
\* word boundary \b: exactly one side is a word character.
WordBoundary(s, p) ==
    LET left  == p >= 1 /\ WordChar(s[p])
        right == p < Len(s) /\ WordChar(s[p + 1])
    IN left # right

\* re.search(rf"\b{keyword}\b", col)
WholeWordSearch(keyword, col) ==
    \E i \in 1..(Len(col) - Len(keyword) + 1) :
        /\ SubSeq(col, i, i + Len(keyword) - 1) = keyword
        /\ WordBoundary(col, i - 1)
        /\ WordBoundary(col, i + Len(keyword) - 1)

\* The number of (column, keyword) pairs of one category that match.
RECURSIVE CountMatches(_, _, _)
CountMatches(keywords, cols, n) ==
    IF n = 0 THEN 0
    ELSE CountMatches(keywords, cols, n - 1)
         + Cardinality({k \in 1..Len(keywords) :
                            WholeWordSearch(keywords[k], cols[n])})

\* match_scores after the three nested loops.
MatchScores(cols) ==
    [c \in 1..Len(category_keywords) |->
        CountMatches(category_keywords[c].keywords, cols, Len(cols))]

\* A selection that takes the last key that carries the largest score.
BestCategoryLast(scores) ==
    CHOOSE c \in 1..Len(scores) :
        /\ \A d \in 1..Len(scores) : scores[d] <= scores[c]
        /\ \A d \in (c + 1)..Len(scores) : scores[d] < scores[c]

\* max(match_scores, key=match_scores.get): the first key, in insertion
\* order, that carries the largest score.
BestCategory(scores) ==
    CHOOSE c \in 1..Len(scores) :
        /\ \A d \in 1..Len(scores) : scores[d] <= scores[c]
        /\ \A d \in 1..(c - 1) : scores[d] < scores[c]

\* cols = [str(c).lower() for c in df.columns]
LowerAll(cols) == [i \in 1..Len(cols) |-> Lower(cols[i])]

\* The label returned for a table with the given column names.
DetectLabel(scores) ==
    IF scores[BestCategory(scores)] = 0 THEN "General / Other"
    ELSE category_keywords[BestCategory(scores)].category

\* Column names offered to the detector.
DetectNames ==
    { <<"l", "o", "a", "n", "_", "a", "m", "o", "u", "n", "t">>,
      <<"c", "r", "e", "d", "i", "t", "_", "s", "c", "o", "r", "e">>,
      <<"a", "c", "c", "o", "u", "n", "t", "_", "i", "d">>,
      <<"L", "o", "a", "n", " ", "a", "m", "o", "u", "n", "t">>,
      <<"A", "g", "e">>,
      <<"p", "r", "i", "c", "e">>,
      <<"l", "o", "a", "n">>,
      <<"p", "a", "t", "i", "e", "n", "t">>,
      <<"d", "e", "v", "i", "c", "e">>,
      <<"g", "r", "a", "d", "e">>,
      <<"o", "r", "d", "e", "r">> }

\* The labels detect_dataset_category returns, character by character.
LabelChars(label) ==
    CASE label = "Customer / People" ->
           <<"C", "u", "s", "t", "o", "m", "e", "r", " ", "/", " ", "P",
             "e", "o", "p", "l", "e">>
      [] label = "Finance / Banking" ->
           <<"F", "i", "n", "a", "n", "c", "e", " ", "/", " ", "B", "a",
             "n", "k", "i", "n", "g">>
      [] label = "Sales / Retail" ->
           <<"S", "a", "l", "e", "s", " ", "/", " ", "R", "e", "t", "a",
             "i", "l">>
      [] label = "Healthcare / Medical" ->
           <<"H", "e", "a", "l", "t", "h", "c", "a", "r", "e", " ", "/",
             " ", "M", "e", "d", "i", "c", "a", "l">>
      [] label = "Technology / Usage" ->
           <<"T", "e", "c", "h", "n", "o", "l", "o", "g", "y", " ", "/",
             " ", "U", "s", "a", "g", "e">>
      [] label = "Education" ->
           <<"E", "d", "u", "c", "a", "t", "i", "o", "n">>
      [] label = "Operations / Logistics" ->
           <<"O", "p", "e", "r", "a", "t", "i", "o", "n", "s", " ", "/",
             " ", "L", "o", "g", "i", "s", "t", "i", "c", "s">>
      [] label = "General / Other" ->
           <<"G", "e", "n", "e", "r", "a", "l", " ", "/", " ", "O", "t",
             "h", "e", "r">>
      [] label = "Unknown" ->
           <<"U", "n", "k", "n", "o", "w", "n">>

(***************************************************************************)
(* show_next_steps (guided_chat_module).                                   *)
(***************************************************************************)
sector_recommendations ==
    <<
      [key |-> <<"m", "a", "r", "k", "e", "t", "i", "n", "g">>,
       recs |-> <<
            "Customer segmentation & targeting",
            "Campaign performance prediction",
            "Churn and retention analysis",
            "Ad spend optimization" >>],
      [key |-> <<"f", "i", "n", "a", "n", "c", "e">>,
       recs |-> <<
            "Revenue forecasting & risk modeling",
            "Portfolio performance optimization",
            "Expense anomaly detection",
            "Profitability and KPI tracking" >>],
      [key |-> <<"r", "e", "t", "a", "i", "l">>,
       recs |-> <<
            "Product demand forecasting",
            "Dynamic pricing optimization",
            "Inventory trend prediction",
            "Sales region clustering" >>],
      [key |-> <<"h", "e", "a", "l", "t", "h", "c", "a", "r", "e">>,
       recs |-> <<
            "Patient outcome prediction",
            "Treatment effectiveness analysis",
            "Operational efficiency optimization",
            "Cost-benefit modeling" >>],
      [key |-> <<"g", "e", "n", "e", "r", "a", "l">>,
       recs |-> <<
            "Predictive modeling & forecasting",
            "Clustering and segmentation analysis",
            "Automated dashboard reporting",
            "KPI correlation and trend detection" >>]
    >>

\* A lookup that takes the entry whose key the lowered sector starts with.
NextStepsEntryByPrefix(sector) ==
    LET low == Lower(sector)
        Starts(k) == /\ Len(sector_recommendations[k].key) <= Len(low)
                     /\ SubSeq(low, 1, Len(sector_recommendations[k].key))
                            = sector_recommendations[k].key
    IN IF \E k \in 1..Len(sector_recommendations) : Starts(k)
       THEN CHOOSE k \in 1..Len(sector_recommendations) : Starts(k)
       ELSE Len(sector_recommendations)

\* key = sector.lower() if sector and sector.lower() in
\* sector_recommendations else "general": the position of the entry taken.
NextStepsEntry(sector) ==
    LET low == Lower(sector)
        Is(k) == sector_recommendations[k].key = low
    IN IF sector # <<>> /\ \E k \in 1..Len(sector_recommendations) : Is(k)
       THEN CHOOSE k \in 1..Len(sector_recommendations) : Is(k)
       ELSE Len(sector_recommendations)

DetectIdle ==
    /\ det_pc = "idle"
    /\ det_null = FALSE
    /\ det_cols = <<>>
    /\ det_scores = <<>>
    /\ det_result = ""
    /\ steps_key = <<>>
    /\ steps_recs = <<>>

DetectInit ==
    /\ det_pc = "input"
    /\ det_null \in BOOLEAN
    /\ det_cols \in IF det_null THEN {<<>>}
                    ELSE SeqsUpTo(DetectNames, MaxDetectCols)
    /\ det_scores = <<>>
    /\ det_result = ""
    /\ steps_key = <<>>
    /\ steps_recs = <<>>

\* One call of detect_dataset_category.
DetectCategory ==
    /\ det_pc = "input"
    /\ det_pc' = "returned"
    /\ IF det_null
       THEN /\ det_scores' = <<>>
            /\ det_result' = "Unknown"
       ELSE /\ det_scores' = MatchScores(LowerAll(det_cols))
            /\ det_result' = DetectLabel(det_scores')
    /\ UNCHANGED <<det_null, det_cols, steps_key, steps_recs, notDetect>>

\* show_next_steps(sector), with the label the detector returned.
ShowNextSteps ==
    /\ det_pc = "returned"
    /\ det_pc' = "shown"
    /\ LET k == NextStepsEntry(LabelChars(det_result))
       IN /\ steps_key' = sector_recommendations[k].key
          /\ steps_recs' = sector_recommendations[k].recs
    /\ UNCHANGED <<det_null, det_cols, det_scores, det_result, notDetect>>

DetectNext == DetectCategory \/ ShowNextSteps


(***************************************************************************)
(* Type classification: the EDA module and generate_ai_summary.            *)
(* A column is what both classifiers read of it: its name, its dtype and   *)
(* the number of its distinct non-missing values (nunique).                *)
(***************************************************************************)
CatThreshold == 20
AutoCatMin == 2
AutoCatMax == 10
SummaryCatThreshold == 20

Dtypes == {"object", "int64", "float64", "int32", "datetime64[ns]"}

\* np.issubdtype(dtype, np.number)
IsNumberDtype(dtype) == dtype \in {"int64", "float64", "int32"}

\* np.issubdtype(dtype, np.datetime64)
IsDatetimeDtype(dtype) == dtype = "datetime64[ns]"

\* The elements of a list that satisfy a test, in list order.
SelectCols(table, keep) ==
    LET idx == SelectSeq([i \in 1..Len(table) |-> i], LAMBDA i : keep[i])
    IN [k \in 1..Len(idx) |-> table[idx[k]].name]

InList(x, list) == \E i \in 1..Len(list) : list[i] = x

\* EDA: cat_cols as first computed.
EdaCatCols(table) ==
    LET Test(c) == c.dtype = "object" \/ c.nunique < CatThreshold
    IN SelectCols(table, [i \in 1..Len(table) |-> Test(table[i])])

\* EDA: num_cols.
EdaNumCols(table) ==
    LET cats == EdaCatCols(table)
        Test(c) == c.dtype \in {"int64", "float64"} /\ ~InList(c.name, cats)
    IN SelectCols(table, [i \in 1..Len(table) |-> Test(table[i])])

\* An auto_cats that takes every numeric column up to the first-pass
\* threshold.
EdaAutoCatsUpToThreshold(table) ==
    LET Test(c) == /\ c.dtype \in {"int64", "float64"}
                   /\ AutoCatMin <= c.nunique
                   /\ c.nunique <= CatThreshold
    IN SelectCols(table, [i \in 1..Len(table) |-> Test(table[i])])

\* EDA: auto_cats.
EdaAutoCats(table) ==
    LET Test(c) == /\ c.dtype \in {"int64", "float64"}
                   /\ AutoCatMin <= c.nunique
                   /\ c.nunique <= AutoCatMax
    IN SelectCols(table, [i \in 1..Len(table) |-> Test(table[i])])

\* EDA: the loop that appends the auto_cats missing from cat_cols.
RECURSIVE AppendMissing(_, _)
AppendMissing(list, more) ==
    IF more = <<>> THEN list
    ELSE AppendMissing(IF InList(Head(more), list) THEN list
                       ELSE Append(list, Head(more)),
                       Tail(more))

skip_cols ==
    { <<"i", "d">>, <<"i", "n", "d", "e", "x">>,
      <<"c", "l", "u", "s", "t", "e", "r">>,
      <<"s", "e", "g", "m", "e", "n", "t">>,
      <<"t", "a", "r", "g", "e", "t">> }

\* generate_ai_summary: cat_cols.
SummaryCatCols(table) ==
    LET Test(c) == /\ (c.dtype = "category" \/ c.nunique < SummaryCatThreshold)
                   /\ Lower(c.name) \notin skip_cols
    IN SelectCols(table, [i \in 1..Len(table) |-> Test(table[i])])

\* generate_ai_summary: num_cols.
SummaryNumCols(table) ==
    LET cats == SummaryCatCols(table)
        Test(c) == /\ IsNumberDtype(c.dtype)
                   /\ Lower(c.name) \notin skip_cols
                   /\ ~InList(c.name, cats)
    IN SelectCols(table, [i \in 1..Len(table) |-> Test(table[i])])

\* generate_ai_summary: datetime_cols.
SummaryDatetimeCols(table) ==
    LET Test(c) == IsDatetimeDtype(c.dtype)
    IN SelectCols(table, [i \in 1..Len(table) |-> Test(table[i])])

\* Column names and distinct counts offered to the classifiers.
ClassifyNames ==
    { <<"i", "d">>, <<"a", "g", "e">>, <<"c", "i", "t", "y">> }

NuniqueValues ==
    {1, AutoCatMin, AutoCatMax, AutoCatMax + 1, CatThreshold - 1, CatThreshold}

\* Lists of up to n distinct column names.
ClassifyNameLists(n) ==
    {s \in SeqsUpTo(ClassifyNames, n) :
        \A i, j \in 1..Len(s) : i # j => s[i] # s[j]}

\* The table with the given column names, dtypes and distinct counts.
ClassifyTable(names, a) ==
    [i \in 1..Len(names) |->
        [name |-> names[i], dtype |-> a[i][1], nunique |-> a[i][2]]]

ClassifyIdle ==
    /\ cls_pc = "idle"
    /\ cls_table = <<>>
    /\ cat_cols = <<>>
    /\ num_cols = <<>>
    /\ auto_cats = <<>>
    /\ sum_cat = <<>>
    /\ sum_num = <<>>
    /\ sum_dt = <<>>

ClassifyInit ==
    /\ cls_pc = "input"
    /\ \E names \in ClassifyNameLists(MaxClsCols) :
          \E a \in [1..Len(names) -> Dtypes \X NuniqueValues] :
             cls_table = ClassifyTable(names, a)
    /\ cat_cols = <<>>
    /\ num_cols = <<>>
    /\ auto_cats = <<>>
    /\ sum_cat = <<>>
    /\ sum_num = <<>>
    /\ sum_dt = <<>>

\* EDA: the first pass computes cat_cols and num_cols.
EdaFirstPass ==
    /\ cls_pc = "input"
    /\ cat_cols' = EdaCatCols(cls_table)
    /\ num_cols' = EdaNumCols(cls_table)
    /\ cls_pc' = "first_pass"
    /\ UNCHANGED <<cls_table, auto_cats, sum_cat, sum_num, sum_dt,
                   notClassify>>

\* EDA: the second pass computes auto_cats and extends cat_cols.
EdaSecondPass ==
    /\ cls_pc = "first_pass"
    /\ auto_cats' = EdaAutoCats(cls_table)
    /\ cat_cols' = AppendMissing(cat_cols, auto_cats')
    /\ cls_pc' = "second_pass"
    /\ UNCHANGED <<cls_table, num_cols, sum_cat, sum_num, sum_dt,
                   notClassify>>

\* generate_ai_summary classifies the same table.
SummaryClassify ==
    /\ cls_pc = "second_pass"
    /\ sum_cat' = SummaryCatCols(cls_table)
    /\ sum_num' = SummaryNumCols(cls_table)
    /\ sum_dt' = SummaryDatetimeCols(cls_table)
    /\ cls_pc' = "summarized"
    /\ UNCHANGED <<cls_table, cat_cols, num_cols, auto_cats,
                   notClassify>>

ClassifyNext == EdaFirstPass \/ EdaSecondPass \/ SummaryClassify


(***************************************************************************)
(* Tables of clean_data_core.                                              *)
(*                                                                         *)
(* A table is [names, cols]; a column is [kind, vals, raises].  kind is    *)
(* the storage of the column: "float64", "float32", "datetime64", or an    *)
(* object column, which is "datestr" when every string in it parses as a   *)
(* date and "text" when pd.to_datetime raises on it.  raises says that     *)
(* pandas raises when a statistic of this column is computed.  A cell is   *)
(* NaN or a number, held as an integer multiple of 1/Scale so that means,  *)
(* medians and interpolated percentiles are exact.  The model holds no     *)
(* infinite cell, so df.replace([inf, -inf], nan) finds nothing to do.     *)
(***************************************************************************)
NaN == -1

RECURSIVE GCD(_, _)
GCD(a, b) == IF b = 0 THEN a ELSE GCD(b, a % b)

RECURSIVE LCMUpTo(_)
LCMUpTo(n) ==
    IF n <= 1 THEN 1
    ELSE (LCMUpTo(n - 1) * n) \div GCD(LCMUpTo(n - 1), n)

\* One unit of the data is Scale units of the model.
Scale == 100 * LCMUpTo(MaxRows)

IsNa(x) == x = NaN

NRows(t) == IF t.cols = <<>> THEN 0 ELSE Len(t.cols[1].vals)

NCols(t) == Len(t.cols)

\* df[col].dtype == "object"
IsObject(col) == col.kind \in {"text", "datestr"}

\* pd.api.types.is_datetime64_any_dtype(df[col])
IsDatetime(col) == col.kind = "datetime64"

\* a column of df.select_dtypes(include=np.number)
IsNumeric(col) == col.kind \in {"float64", "float32"}

\* df[col].dtype in [np.float64, np.int64]; an int64 column holds no NaN
IsFloat64OrInt64(col) == col.kind = "float64"

\* series.dropna()
NonMissing(vals) == SelectSeq(vals, LAMBDA x : ~IsNa(x))

\* series.isna().any()
HasMissing(vals) == \E i \in 1..Len(vals) : IsNa(vals[i])

\* series.isna().sum()
MissingCount(vals) == Cardinality({i \in 1..Len(vals) : IsNa(vals[i])})

RECURSIVE SumSeq(_)
SumSeq(s) == IF s = <<>> THEN 0 ELSE Head(s) + SumSeq(Tail(s))

Sorted(s) == SortSeq(s, LAMBDA a, b : a < b)

\* series.mean(): NaN for a column with no value.
Mean(vals) ==
    LET xs == NonMissing(vals)
    IN IF xs = <<>> THEN NaN ELSE SumSeq(xs) \div Len(xs)

\* series.median()
Median(vals) ==
    LET xs == Sorted(NonMissing(vals))
        n  == Len(xs)
    IN IF n = 0 THEN NaN
       ELSE IF n % 2 = 1 THEN xs[(n + 1) \div 2]
       ELSE (xs[n \div 2] + xs[n \div 2 + 1]) \div 2

\* abs(series.skew()) > 1.  pandas computes the adjusted Fisher-Pearson
\* coefficient G1 = n*sqrt(n-1)/(n-2) * M3 / M2^1.5 over the n values
\* present (M2, M3 the sums of squared and cubed deviations); it is NaN for
\* n < 3 and 0 for M2 = 0, and a comparison with NaN is False.  With
\* D[i] = n*x[i] - sum(x): |G1| > 1 iff n^2 (n-1) (sum D^3)^2 >
\* (n-2)^2 (sum D^2)^3.  Skewness does not depend on the unit.
SkewAboveOne(vals) ==
    LET xs == NonMissing(vals)
        n  == Len(xs)
        u  == [i \in 1..n |-> xs[i] \div Scale]
        D  == [i \in 1..n |-> n * u[i] - SumSeq(u)]
        S2 == SumSeq([i \in 1..n |-> D[i] * D[i]])
        S3 == SumSeq([i \in 1..n |-> D[i] * D[i] * D[i]])
    IN /\ n >= 3
       /\ S2 # 0
       /\ n * n * (n - 1) * S3 * S3 > (n - 2) * (n - 2) * S2 * S2 * S2

\* series.mode()[0]: the most frequent value, the smallest on a tie;
\* NaN stands for an empty mode.
Mode(vals) ==
    LET xs == NonMissing(vals)
        Count(v) == Cardinality({i \in 1..Len(xs) : xs[i] = v})
        present == {xs[i] : i \in 1..Len(xs)}
    IN IF xs = <<>> THEN NaN
       ELSE CHOOSE v \in present :
               \A w \in present :
                   Count(w) < Count(v) \/ (Count(w) = Count(v) /\ v <= w)

\* series.fillna(value); fillna(NaN) changes nothing.
FillNa(vals, value) ==
    [i \in 1..Len(vals) |-> IF IsNa(vals[i]) THEN value ELSE vals[i]]

\* series.fillna(method="ffill"): the last valid value above, if any.
RECURSIVE FFillFrom(_, _)
FFillFrom(vals, last) ==
    IF vals = <<>> THEN <<>>
    ELSE LET v == IF IsNa(Head(vals)) THEN last ELSE Head(vals)
         IN <<v>> \o FFillFrom(Tail(vals), v)

FFill(vals) == FFillFrom(vals, NaN)

\* series.quantile(q / 100), linear interpolation over the values present;
\* NaN for a column with no value.
Quantile(vals, q) ==
    LET xs == Sorted(NonMissing(vals))
        n  == Len(xs)
        h  == (n - 1) * q
        lo == h \div 100
        fr == h % 100
    IN IF n = 0 THEN NaN
       ELSE IF fr = 0 THEN xs[lo + 1]
       ELSE xs[lo + 1] + (fr * (xs[lo + 2] - xs[lo + 1])) \div 100

\* np.clip(series, lower, upper); a NaN cell stays NaN.
Clip(vals, lower, upper) ==
    [i \in 1..Len(vals) |->
        IF IsNa(vals[i]) \/ IsNa(lower) THEN NaN
        ELSE IF vals[i] < lower THEN lower
        ELSE IF vals[i] > upper THEN upper
        ELSE vals[i]]

\* The cells of row i.
Row(t, i) == [c \in 1..NCols(t) |-> t.cols[c].vals[i]]

\* df.duplicated(): the row equals an earlier row (NaN equals NaN).
IsDuplicated(t, i) == \E j \in 1..(i - 1) : Row(t, j) = Row(t, i)

\* df.duplicated().sum()
DuplicatedCount(t) == Cardinality({i \in 1..NRows(t) : IsDuplicated(t, i)})

KeepRows(vals, keep) ==
    LET idx == SelectSeq([i \in 1..Len(vals) |-> i], LAMBDA i : keep[i])
    IN [k \in 1..Len(idx) |-> vals[idx[k]]]

\* A drop_duplicates that keeps the last row of each group of equal rows.
DropDuplicatesKeepLast(t) ==
    LET keep == [i \in 1..NRows(t) |->
                    ~\E j \in (i + 1)..NRows(t) : Row(t, j) = Row(t, i)]
    IN [t EXCEPT !.cols =
           [c \in 1..NCols(t) |->
               [t.cols[c] EXCEPT !.vals = KeepRows(t.cols[c].vals, keep)]]]

\* df.drop_duplicates(): the first row of each group of equal rows stays.
DropDuplicates(t) ==
    LET keep == [i \in 1..NRows(t) |-> ~IsDuplicated(t, i)]
    IN [t EXCEPT !.cols =
           [c \in 1..NCols(t) |->
               [t.cols[c] EXCEPT !.vals = KeepRows(t.cols[c].vals, keep)]]]


(***************************************************************************)
(* The stages of clean_data_core, column by column.                        *)
(***************************************************************************)
DatetimeRatioTenths == 7
LowerPercentile == 1
UpperPercentile == 99

\* Datetime detection on one column: an object column is parsed; when the
\* parse does not raise and more than 0.7 of the cells are valid dates the
\* column becomes a datetime column.
DetectDatetimeColumn(col) ==
    IF /\ col.kind = "datestr"
       /\ 10 * Len(NonMissing(col.vals)) > DatetimeRatioTenths * Len(col.vals)
    THEN [col EXCEPT !.kind = "datetime64"]
    ELSE col

\* The fill value of a float64 column: the median of a skewed column, else
\* the mean.
NumericFillValue(vals) ==
    IF SkewAboveOne(vals) THEN Median(vals) ELSE Mean(vals)

\* Whether the body of the fill loop raises on the column.
FillRaises(col) == HasMissing(col.vals) /\ col.raises

\* A fill loop that has lost its else branch: only float64 and datetime
\* columns are filled.
FillColumnWithoutMode(col) ==
    IF ~HasMissing(col.vals) \/ FillRaises(col) THEN col
    ELSE IF IsDatetime(col) THEN [col EXCEPT !.vals = FFill(col.vals)]
    ELSE IF IsFloat64OrInt64(col)
         THEN [col EXCEPT !.vals = FillNa(col.vals, NumericFillValue(col.vals))]
    ELSE col

\* One turn of the fill loop.
FillColumn(col) ==
    IF ~HasMissing(col.vals) \/ FillRaises(col) THEN col
    ELSE IF IsDatetime(col) THEN [col EXCEPT !.vals = FFill(col.vals)]
    ELSE IF IsFloat64OrInt64(col)
         THEN [col EXCEPT !.vals = FillNa(col.vals, NumericFillValue(col.vals))]
    ELSE [col EXCEPT !.vals = FillNa(col.vals, Mode(col.vals))]

\* The fill the loop applies to a column with a missing cell: the branch it
\* takes; "None" when the turn raises or the mode is empty.
AppliedFillMethod(col) ==
    IF FillRaises(col) THEN "None"
    ELSE IF IsDatetime(col) THEN "Forward Fill"
    ELSE IF IsFloat64OrInt64(col)
         THEN (IF SkewAboveOne(col.vals) THEN "Median" ELSE "Mean")
    ELSE IF NonMissing(col.vals) = <<>> THEN "None"
    ELSE "Mode"

\* Whether the body of the capping loop raises on the column.
CapRaises(col) == IsNumeric(col) /\ col.raises

\* A capping loop that clips from below only.
CapColumnLowerOnly(col) ==
    IF IsNumeric(col) /\ ~CapRaises(col)
    THEN LET lower == Quantile(col.vals, LowerPercentile)
         IN [col EXCEPT !.vals =
                [i \in 1..Len(col.vals) |->
                    IF IsNa(col.vals[i]) \/ IsNa(lower) THEN NaN
                    ELSE IF col.vals[i] < lower THEN lower
                    ELSE col.vals[i]]]
    ELSE col

\* One turn of the capping loop; the loop visits the numeric columns only.
CapColumn(col) ==
    IF IsNumeric(col) /\ ~CapRaises(col)
    THEN [col EXCEPT !.vals = Clip(col.vals,
                                   Quantile(col.vals, LowerPercentile),
                                   Quantile(col.vals, UpperPercentile))]
    ELSE col

\* A cleanup that drops the missing cells instead of filling them.
FillZeroColumnDropNa(col) == [col EXCEPT !.vals = NonMissing(col.vals)]

\* df.fillna(0) on one column.
FillZeroColumn(col) == [col EXCEPT !.vals = FillNa(col.vals, 0)]

\* The positions of the columns that satisfy a test, in column order.
ColumnsWhere(keep) ==
    SelectSeq([c \in 1..Len(keep) |-> c], LAMBDA c : keep[c])

\* An order of the statements in which capping comes before the fill loop.
StageAfterCapFirst(stage) ==
    CASE stage = "normalize"       -> "detect"
      [] stage = "detect"          -> "cap"
      [] stage = "cap"             -> "fill"
      [] stage = "fill"            -> "final_fill"
      [] stage = "final_fill"      -> "drop_duplicates"
      [] stage = "drop_duplicates" -> "returned"

\* The statements of clean_data_core follow one another in this order.
StageAfter(stage) ==
    CASE stage = "normalize"       -> "detect"
      [] stage = "detect"          -> "fill"
      [] stage = "fill"            -> "cap"
      [] stage = "cap"             -> "final_fill"
      [] stage = "final_fill"      -> "drop_duplicates"
      [] stage = "drop_duplicates" -> "returned"

(***************************************************************************)
(* What auto_data_clean shows.                                             *)
(***************************************************************************)
\* The fill method the Missing Values tab names for a column of df_before.
ReportedFillMethod(col) ==
    IF IsDatetime(col) THEN "Forward Fill"
    ELSE IF IsFloat64OrInt64(col)
         THEN (IF SkewAboveOne(col.vals) THEN "Median" ELSE "Mean")
    ELSE "Mode"

\* Whether building the Missing Values tab raises on a column: the
\* statistics are computed outside any try block.
ReportRaises(col) ==
    HasMissing(col.vals) /\ ~IsDatetime(col) /\ col.raises

\* missing_summary
MissingSummary(t) ==
    LET idx == ColumnsWhere([c \in 1..NCols(t) |-> MissingCount(t.cols[c].vals) > 0])
    IN [k \in 1..Len(idx) |->
           [column        |-> t.names[idx[k]],
            missing_count |-> MissingCount(t.cols[idx[k]].vals),
            fill_method   |-> ReportedFillMethod(t.cols[idx[k]])]]

NoReport ==
    [shown |-> FALSE, rows_before |-> 0, rows_after |-> 0, columns |-> 0,
     dup_count |-> 0, missing_summary |-> <<>>]

(***************************************************************************)
(* The cleaning run.                                                       *)
(***************************************************************************)
\* Values of the data (in units) and kinds of column offered to a run.
DataValues == {1, 2}

CellValues == {NaN} \cup {v * Scale : v \in DataValues}

Kinds == {"float64", "float32", "text", "datestr", "datetime64"}

\* Column names offered to a run: already clean, and raw.
NameChoices ==
    { << <<"a">>, <<"b">> >>,
      << <<"A", " ">>, <<"b", " ", "c">> >> }

EmptyTable == [names |-> <<>>, cols |-> <<>>]

TablesOfShape(nc, nr) ==
    { [names |-> SubSeq(nms, 1, nc), cols |-> cs] :
        nms \in NameChoices,
        cs \in [1..nc -> [kind : Kinds, vals : [1..nr -> CellValues],
                          raises : BOOLEAN]] }

\* The shapes of the tables offered: at most two columns, MaxRows rows and
\* MaxCells cells; a table without columns has no cells.
Shapes ==
    {sh \in (0..2) \X (0..MaxRows) :
        sh[1] * sh[2] <= MaxCells /\ (sh[1] = 0 => sh[2] = 0)}

InputTables == UNION { TablesOfShape(sh[1], sh[2]) : sh \in Shapes }

\* A table offered beside those: one float64 column 1, 2, 3, 4, 1000.
OutlierColumn == [v \in 1..5 |-> IF v = 5 THEN 1000 * Scale ELSE v * Scale]

ExampleTables ==
    { [names |-> << <<"a">> >>,
       cols  |-> << [kind |-> "float64", vals |-> OutlierColumn,
                     raises |-> FALSE] >>] }

CleanIdle ==
    /\ pc = "idle"
    /\ entry = "core"
    /\ arg_null = FALSE
    /\ given = EmptyTable
    /\ caller = EmptyTable
    /\ df_before = EmptyTable
    /\ df = EmptyTable
    /\ stages = <<>>
    /\ fill_raised = {}
    /\ cap_raised = {}
    /\ warnings = <<>>
    /\ report = NoReport

CleanInit ==
    /\ entry \in {"core", "auto"}
    /\ arg_null \in BOOLEAN
    /\ given \in IF arg_null THEN {EmptyTable}
                ELSE InputTables \cup ExampleTables
    /\ caller = given
    /\ pc = IF entry = "auto" THEN "auto_prepare" ELSE "normalize"
    /\ df_before = EmptyTable
    /\ df = EmptyTable
    /\ stages = <<>>
    /\ fill_raised = {}
    /\ cap_raised = {}
    /\ warnings = <<>>
    /\ report = NoReport

\* auto_data_clean up to its call of clean_data_core: it keeps a copy of the
\* table as df_before and assigns the cleaned names to the columns of the
\* table it was given.  On None, df.columns raises.
AutoPrepare ==
    /\ pc = "auto_prepare"
    /\ IF arg_null
       THEN /\ pc' = "raised"
            /\ UNCHANGED <<df_before, caller>>
       ELSE /\ df_before' = caller
            /\ caller' = [caller EXCEPT !.names = CleanNames(caller.names)]
            /\ pc' = "normalize"
    /\ UNCHANGED <<entry, arg_null, given, df, stages, fill_raised,
                   cap_raised, warnings, report, notClean>>

\* clean_data_core: df = df.copy(), then the column names.  On None,
\* df.copy() raises.
NormalizeStage ==
    /\ pc = "normalize"
    /\ IF arg_null
       THEN /\ pc' = "raised"
            /\ UNCHANGED <<df, stages, warnings>>
       ELSE /\ df' = [caller EXCEPT !.names = NormalizeColumns(caller.names)]
            /\ warnings' =
                 IF HasDuplicates(CleanNames(caller.names))
                 THEN Append(warnings, [what |-> "duplicate_columns", col |-> 0])
                 ELSE warnings
            /\ stages' = Append(stages, "normalize")
            /\ pc' = StageAfter("normalize")
    /\ UNCHANGED <<entry, arg_null, given, caller, df_before, fill_raised,
                   cap_raised, report, notClean>>

\* The datetime detection loop.  df[col] of a repeated label is a DataFrame,
\* which has no dtype: the loop raises, outside its try block.
DetectDatetimeStage ==
    /\ pc = "detect"
    /\ IF HasDuplicates(df.names)
       THEN /\ pc' = "raised"
            /\ UNCHANGED <<df, stages>>
       ELSE /\ df' = [df EXCEPT !.cols = [c \in 1..NCols(df) |-> DetectDatetimeColumn(df.cols[c])]]
            /\ stages' = Append(stages, "detect")
            /\ pc' = StageAfter("detect")
    /\ UNCHANGED <<entry, arg_null, given, caller, df_before, fill_raised,
                   cap_raised, warnings, report, notClean>>

\* The fill loop: a column whose turn raises is left as it is, and nothing
\* is written about it.
FillMissingStage ==
    /\ pc = "fill"
    /\ df' = [df EXCEPT !.cols = [c \in 1..NCols(df) |-> FillColumn(df.cols[c])]]
    /\ fill_raised' = {c \in 1..NCols(df) : FillRaises(df.cols[c])}
    /\ stages' = Append(stages, "impute")
    /\ pc' = StageAfter("fill")
    /\ UNCHANGED <<entry, arg_null, given, caller, df_before, cap_raised,
                   warnings, report, notClean>>

\* The capping loop: a column whose turn raises is left as it is, and
\* st.warning names it.
CapOutliersStage ==
    /\ pc = "cap"
    /\ df' = [df EXCEPT !.cols = [c \in 1..NCols(df) |-> CapColumn(df.cols[c])]]
    /\ cap_raised' = {c \in 1..NCols(df) : CapRaises(df.cols[c])}
    /\ warnings' =
         LET idx == ColumnsWhere([c \in 1..NCols(df) |-> CapRaises(df.cols[c])])
         IN warnings \o [k \in 1..Len(idx) |->
                            [what |-> "cap_skipped", col |-> idx[k]]]
    /\ stages' = Append(stages, "cap")
    /\ pc' = StageAfter("cap")
    /\ UNCHANGED <<entry, arg_null, given, caller, df_before, fill_raised,
                   report, notClean>>

\* df.replace([inf, -inf], nan) and df.fillna(0).
FinalFillStage ==
    /\ pc = "final_fill"
    /\ df' = [df EXCEPT !.cols = [c \in 1..NCols(df) |-> FillZeroColumn(df.cols[c])]]
    /\ stages' = Append(stages, "fillna")
    /\ pc' = StageAfter("final_fill")
    /\ UNCHANGED <<entry, arg_null, given, caller, df_before, fill_raised,
                   cap_raised, warnings, report, notClean>>

\* df.drop_duplicates(inplace=True); return df.
DropDuplicatesStage ==
    /\ pc = "drop_duplicates"
    /\ df' = DropDuplicates(df)
    /\ stages' = Append(stages, "dedupe")
    /\ pc' = StageAfter("drop_duplicates")
    /\ UNCHANGED <<entry, arg_null, given, caller, df_before, fill_raised,
                   cap_raised, warnings, report, notClean>>

\* auto_data_clean after clean_data_core has returned df_clean: the
\* overview metrics, the Missing Values tab and the Duplicates tab, all
\* computed from df_before.
AutoReport ==
    /\ pc = "returned"
    /\ entry = "auto"
    /\ IF \E c \in 1..NCols(df_before) : ReportRaises(df_before.cols[c])
       THEN /\ pc' = "raised"
            /\ UNCHANGED report
       ELSE /\ report' = [shown           |-> TRUE,
                          rows_before     |-> NRows(df_before),
                          rows_after      |-> NRows(df),
                          columns         |-> NCols(df),
                          dup_count       |-> DuplicatedCount(df_before),
                          missing_summary |-> MissingSummary(df_before)]
            /\ pc' = "reported"
    /\ UNCHANGED <<entry, arg_null, given, caller, df_before, df, stages,
                   fill_raised, cap_raised, warnings, notClean>>

CleanNext ==
    \/ AutoPrepare
    \/ NormalizeStage
    \/ DetectDatetimeStage
    \/ FillMissingStage
    \/ CapOutliersStage
    \/ FinalFillStage
    \/ DropDuplicatesStage
    \/ AutoReport

(***************************************************************************)
(* eda_module: the categorical encoder, one column of cat_cols at a time.  *)
(***************************************************************************)
\* The code pandas gives a missing cell.
MissingCode == -1

\* Labels of the cells offered to the encoder; their order is the order of
\* the integers.
Labels == {1, 2, 3}

\* series.astype('category').cat.categories: the distinct labels observed,
\* sorted; a missing cell is no category.
Categories(vals) ==
    LET present == {vals[i] : i \in {j \in 1..Len(vals) : ~IsNa(vals[j])}}
    IN SortSeq(CHOOSE s \in [1..Cardinality(present) -> present] :
                   \A v \in present : \E k \in DOMAIN s : s[k] = v,
               LAMBDA a, b : a < b)

\* The 0-based code of a label among the categories.
CodeOfOneBased(cats, label) ==
    IF IsNa(label) THEN MissingCode
    ELSE CHOOSE k \in 1..Len(cats) : cats[k] = label

\* series.cat.codes for one cell: the 0-based position of its label among
\* the categories, -1 for a missing cell.
CodeOf(cats, label) ==
    IF IsNa(label) THEN MissingCode
    ELSE (CHOOSE k \in 1..Len(cats) : cats[k] = label) - 1

\* series.cat.codes
Codes(vals) == [i \in 1..Len(vals) |-> CodeOf(Categories(vals), vals[i])]

\* dict(enumerate(series.cat.categories))
Mapping(vals) ==
    LET cats == Categories(vals)
    IN [code \in 0..(Len(cats) - 1) |-> cats[code + 1]]

EncodeIdle ==
    /\ enc_pc = "idle"
    /\ enc_col = <<>>
    /\ enc_codes = <<>>
    /\ enc_mapping = <<>>

EncodeInit ==
    /\ enc_pc = "input"
    /\ enc_col \in SeqsUpTo({NaN} \cup Labels, MaxEncRows)
    /\ enc_codes = <<>>
    /\ enc_mapping = <<>>

\* One turn of the encoding loop.
EncodeColumn ==
    /\ enc_pc = "input"
    /\ enc_mapping' = Mapping(enc_col)
    /\ enc_codes' = Codes(enc_col)
    /\ enc_pc' = "encoded"
    /\ UNCHANGED <<enc_col, notEncode>>

EncodeNext == EncodeColumn


(***************************************************************************)
(* generate_ai_summary: the remote call and the insights.                  *)
(***************************************************************************)
InsightLimit == 5

\* What a line of the reply is once stripped: empty, shorter than 250
\* characters, or not.
LineKinds == {"blank", "short", "long"}

\* What client.chat.completions.create can do: raise (failure, timeout),
\* return a message without content, or return text.
Replies ==
    { [outcome |-> "raises", lines |-> <<>>],
      [outcome |-> "no_content", lines |-> <<>>] }
    \cup { [outcome |-> "text", lines |-> ls] :
             ls \in SeqsUpTo(LineKinds, MaxReplyLines) }

\* The insights parsed from the reply: its non-empty lines, those shorter
\* than 250 characters, at most five.
ParseInsights(lines) ==
    LET nonblank == SelectSeq(lines, LAMBDA l : l # "blank")
        short    == SelectSeq(nonblank, LAMBDA l : l # "long")
    IN SubSeq(short, 1, IF Len(short) < InsightLimit THEN Len(short)
                        ELSE InsightLimit)

\* The insights of the except branch.
DefaultInsights ==
    << "Examine the correlation matrix to find strong relationships.",
       "Explore time-based trends for potential seasonality.",
       "Compare distributions across categorical groups.",
       "Identify outliers that might affect modeling accuracy." >>

\* Whether the try block raises: the call raises, or content is None and
\* .strip() raises.
CallRaises(reply) == reply.outcome \in {"raises", "no_content"}

SummaryIdle ==
    /\ ai_pc = "idle"
    /\ ai_nodata = FALSE
    /\ ai_reply = [outcome |-> "raises", lines |-> <<>>]
    /\ ai_summary = ""
    /\ ai_insights = <<>>

SummaryInit ==
    /\ ai_pc = "input"
    /\ ai_nodata \in BOOLEAN
    /\ ai_reply \in Replies
    /\ ai_summary = ""
    /\ ai_insights = <<>>

\* generate_ai_summary(client, df, sector)
GenerateAiSummary ==
    /\ ai_pc = "input"
    /\ IF ai_nodata
       THEN /\ ai_summary' = "No data available"
            /\ ai_insights' = <<>>
       ELSE /\ ai_summary' = "structured_summary"
            /\ ai_insights' = IF CallRaises(ai_reply) THEN DefaultInsights
                              ELSE ParseInsights(ai_reply.lines)
    /\ ai_pc' = "returned"
    /\ UNCHANGED <<ai_nodata, ai_reply, notSummary>>

SummaryNext == GenerateAiSummary


(***************************************************************************)
(* guided_chat_module: groq_guided_chat and render_chat.                   *)
(***************************************************************************)
ShownLimit == 5

\* The questions of two of the buttons, and an answer of the model.
Questions ==
    {"Give a brief summary of this dataset.",
     "What correlations exist in this dataset?"}

Answers == {"answer"}

\* A render that displays the whole history.
RenderedAll(history) == history

\* render_chat: chat_history[-5:]
Rendered(history) ==
    IF Len(history) <= ShownLimit THEN history
    ELSE SubSeq(history, Len(history) - ShownLimit + 1, Len(history))

ChatIdle ==
    /\ chat_on = FALSE
    /\ chat_history = <<>>
    /\ chat_shown = <<>>
    /\ chat_calls = 0
    /\ chat_errors = 0
    /\ chat_log = <<>>

\* The module as loaded: chat_history = [].
ChatInit ==
    /\ chat_on = TRUE
    /\ chat_history = <<>>
    /\ chat_shown = <<>>
    /\ chat_calls = 0
    /\ chat_errors = 0
    /\ chat_log = <<>>

\* groq_guided_chat when the try block runs through: one call, the answer
\* is appended and render_chat displays the history.
GuidedChatAnswers ==
    /\ chat_on
    /\ Len(chat_log) < MaxChatClicks
    /\ \E q \in Questions, a \in Answers :
          /\ chat_calls' = chat_calls + 1
          /\ chat_history' = Append(chat_history, [user |-> q, ai |-> a])
          /\ chat_shown' = Rendered(chat_history')
          /\ chat_log' = Append(chat_log, [user |-> q, ok |-> TRUE, ai |-> a])
    /\ UNCHANGED <<chat_on, chat_errors, notChat>>

\* groq_guided_chat when the call raises, or returns no content so that
\* .strip() raises: the except branch displays the error.
GuidedChatFails ==
    /\ chat_on
    /\ Len(chat_log) < MaxChatClicks
    /\ \E q \in Questions :
          /\ chat_calls' = chat_calls + 1
          /\ chat_errors' = chat_errors + 1
          /\ chat_log' = Append(chat_log, [user |-> q, ok |-> FALSE, ai |-> ""])
    /\ UNCHANGED <<chat_on, chat_history, chat_shown, notChat>>

ChatNext == GuidedChatAnswers \/ GuidedChatFails


(***************************************************************************)
(* The pages and st.session_state.                                         *)
(*                                                                         *)
(* st.session_state is a dictionary that lives as long as the browser      *)
(* session: session is the function from the keys it holds to what is      *)
(* stored under them.  What is stored is the number of the page run that   *)
(* uploaded the dataset it derives from.  A page run is one action: the    *)
(* script runs from its first line to st.stop(), to an exception or to its *)
(* last line.  No page deletes a key.                                      *)
(*                                                                         *)
(* The pages call run_eda and launch_basic_chat, and page 1 names a Home   *)
(* page that stores the upload; none of the three is in the source, so     *)
(* they are modelled by what they hand back to the page.                   *)
(***************************************************************************)
\* key in st.session_state
Has(s, key) == key \in DOMAIN s

\* st.session_state[key] = value
Store(s, key, value) ==
    [k \in DOMAIN s \cup {key} |-> IF k = key THEN value ELSE s[k]]

\* Page 1: the script goes on when uploaded_df is in the session.
CleaningGuard(s) == Has(s, "uploaded_df")

\* Pages 2 and 3: the script goes on when clean_df is in the session.
CleanedGuard(s) == Has(s, "clean_df")

\* Page 4: the script goes on when ai_summary and eda_df are in the session.
ChatGuard(s) == Has(s, "ai_summary") /\ Has(s, "eda_df")

\* A page 3 that stores the summary and forgets the insights.
StoreSummaryOnly(s, value) == Store(s, "ai_summary", value)

\* Page 3: st.session_state["ai_summary"] = ai_summary
\*         st.session_state["insights"] = insights
StoreSummary(s, value) ==
    Store(Store(s, "ai_summary", value), "insights", value)

\* How a call made by a page ends.
CallOutcomes == {"returns", "raises"}

SessionIdle ==
    /\ sess_on = FALSE
    /\ session = << >>
    /\ sess_page = ""
    /\ sess_outcome = ""
    /\ sess_visits = 0

\* A new browser session: st.session_state is empty.
SessionInit ==
    /\ sess_on = TRUE
    /\ session = << >>
    /\ sess_page = ""
    /\ sess_outcome = ""
    /\ sess_visits = 0

\* What every page run does to the bookkeeping of the model.
PageRun(page, outcome) ==
    /\ sess_on
    /\ sess_visits < MaxVisits
    /\ sess_visits' = sess_visits + 1
    /\ sess_page' = page
    /\ sess_outcome' = outcome
    /\ UNCHANGED <<sess_on, notSession>>

\* The Home page: a dataset that loads is stored under uploaded_df; without
\* a file, or with a file that does not load, the page stops.
VisitHome ==
    \E loaded \in BOOLEAN :
       IF loaded
       THEN /\ session' = Store(session, "uploaded_df", sess_visits + 1)
            /\ PageRun("home", "done")
       ELSE /\ session' = session
            /\ PageRun("home", "stopped")

\* pages/1_Data_Cleaning.py
VisitCleaning ==
    IF ~CleaningGuard(session)
    THEN /\ session' = session
         /\ PageRun("cleaning", "stopped")
    ELSE \E call \in CallOutcomes :
            IF call = "raises"
            THEN /\ session' = session
                 /\ PageRun("cleaning", "raised")
            ELSE /\ session' = Store(session, "clean_df",
                                     session["uploaded_df"])
                 /\ PageRun("cleaning", "done")

\* pages/2_Exploratory_Analysis.py
VisitExploratory ==
    IF ~CleanedGuard(session)
    THEN /\ session' = session
         /\ PageRun("eda", "stopped")
    ELSE \E call \in CallOutcomes :
            IF call = "raises"
            THEN /\ session' = session
                 /\ PageRun("eda", "raised")
            ELSE /\ session' = Store(session, "eda_df", session["clean_df"])
                 /\ PageRun("eda", "done")

\* pages/3_AI_Summary.py: the page stops without clean_df and without an
\* API key; detect_dataset_category and generate_ai_summary return or raise.
VisitSummary ==
    IF ~CleanedGuard(session)
    THEN /\ session' = session
         /\ PageRun("summary", "stopped")
    ELSE \E api_key \in BOOLEAN, call \in CallOutcomes :
            IF ~api_key
            THEN /\ session' = session
                 /\ PageRun("summary", "stopped")
            ELSE IF call = "raises"
            THEN /\ session' = session
                 /\ PageRun("summary", "raised")
            ELSE /\ session' = StoreSummary(session, session["clean_df"])
                 /\ PageRun("summary", "done")

\* pages/4_Guided_Chat.py: past the guard the page reads ai_summary,
\* insights and eda_df; a key that is not there raises KeyError.
VisitChat ==
    /\ session' = session
    /\ IF ~ChatGuard(session)
       THEN PageRun("chat", "stopped")
       ELSE IF ~Has(session, "insights")
       THEN PageRun("chat", "raised")
       ELSE PageRun("chat", "done")

\* pages/5_Portfolio_Showcase.py
VisitShowcase ==
    /\ session' = session
    /\ PageRun("showcase", "done")

SessionNext ==
    \/ VisitHome
    \/ VisitCleaning
    \/ VisitExploratory
    \/ VisitSummary
    \/ VisitChat
    \/ VisitShowcase


(***************************************************************************)
(* Specifications: one per component, each leaving the others idle.        *)
(***************************************************************************)
\* The components added after the cleaning run, idle.
LaterIdle == EncodeIdle /\ SummaryIdle /\ ChatIdle /\ SessionIdle

InitNames == NamesInit /\ DetectIdle /\ ClassifyIdle /\ CleanIdle /\ LaterIdle

SpecNames == InitNames /\ [][NamesNext]_vars

InitDetect == NamesIdle /\ DetectInit /\ ClassifyIdle /\ CleanIdle /\ LaterIdle

SpecDetect == InitDetect /\ [][DetectNext]_vars

InitClassify == NamesIdle /\ DetectIdle /\ ClassifyInit /\ CleanIdle /\ LaterIdle

SpecClassify == InitClassify /\ [][ClassifyNext]_vars

InitClean == NamesIdle /\ DetectIdle /\ ClassifyIdle /\ CleanInit /\ LaterIdle

SpecClean == InitClean /\ [][CleanNext]_vars

InitEncode ==
    /\ NamesIdle /\ DetectIdle /\ ClassifyIdle /\ CleanIdle
    /\ EncodeInit /\ SummaryIdle /\ ChatIdle /\ SessionIdle

SpecEncode == InitEncode /\ [][EncodeNext]_vars

InitSummary ==
    /\ NamesIdle /\ DetectIdle /\ ClassifyIdle /\ CleanIdle
    /\ EncodeIdle /\ SummaryInit /\ ChatIdle /\ SessionIdle

SpecSummary == InitSummary /\ [][SummaryNext]_vars

InitChat ==
    /\ NamesIdle /\ DetectIdle /\ ClassifyIdle /\ CleanIdle
    /\ EncodeIdle /\ SummaryIdle /\ ChatInit /\ SessionIdle

SpecChat == InitChat /\ [][ChatNext]_vars

InitSession ==
    /\ NamesIdle /\ DetectIdle /\ ClassifyIdle /\ CleanIdle
    /\ EncodeIdle /\ SummaryIdle /\ ChatIdle /\ SessionInit

SpecSession == InitSession /\ [][SessionNext]_vars

Spec == SpecClean


(***************************************************************************)
(* Properties.                                                             *)
(***************************************************************************)
IsPrefix(p, s) == Len(p) <= Len(s) /\ SubSeq(s, 1, Len(p)) = p

\* The position of a stage in the run so far, 0 when it has not run.
StageIndex(stage) ==
    IF \E i \in 1..Len(stages) : stages[i] = stage
    THEN CHOOSE i \in 1..Len(stages) : stages[i] = stage
    ELSE 0

Returned == pc \in {"returned", "reported"}

\* The state right after the fill loop.
AfterImputation == stages # <<>> /\ stages[Len(stages)] = "impute"

\* A column with rows, all of them missing.
AllMissing(col) == Len(col.vals) > 0 /\ NonMissing(col.vals) = <<>>

NoAllMissingColumn(t) == \A c \in 1..NCols(t) : ~AllMissing(t.cols[c])

\* C1: for any input sequence of column names, the names the normalizer of
\* clean_data_core produces contain no duplicates, and the output has the
\* length and the order of the input (each output name starts with the
\* cleaned input name of its position).
C1_NormalizedNamesAreUnique ==
    nm_pc \in {"normalized", "renormalized", "eda_normalized"} =>
        /\ ~HasDuplicates(nm_out)
        /\ Len(nm_out) = Len(nm_cols)
        /\ \A i \in 1..Len(nm_out) : IsPrefix(CleanName(nm_cols[i]), nm_out[i])

C3_NormalizationIsIdempotent ==
    nm_pc = "eda_normalized" => nm_again = nm_out /\ nm_eda = nm_out

\* C4: on an input that is None, has no rows or has no columns, neither
\* clean_data_core nor auto_data_clean raises.
C4_NoDataInputNeverRaises ==
    (arg_null \/ NCols(given) = 0 \/ NRows(given) = 0) => pc # "raised"

\* C5: for the columns loan_amount, credit_score, account_id the
\* Finance / Banking score is at least 2 and Finance / Banking is returned.
C5_FinanceColumnsDetected ==
    ( /\ det_pc = "returned"
      /\ det_cols = << <<"l", "o", "a", "n", "_", "a", "m", "o", "u", "n", "t">>,
                       <<"c", "r", "e", "d", "i", "t", "_", "s", "c", "o", "r", "e">>,
                       <<"a", "c", "c", "o", "u", "n", "t", "_", "i", "d">> >> )
    => /\ det_scores[2] >= 2
       /\ det_result = "Finance / Banking"

\* The number of the given lists that hold the name.
ClassCount(name, lists) ==
    Cardinality({k \in 1..Len(lists) : InList(name, lists[k])})

\* C6: every column is in exactly one of the classes categorical,
\* numerical, datetime, both in the EDA module (which keeps no datetime
\* list) and in generate_ai_summary.
C6_ClassificationIsAPartition ==
    cls_pc = "summarized" =>
        \A i \in 1..Len(cls_table) :
            /\ ClassCount(cls_table[i].name, <<cat_cols, num_cols>>) = 1
            /\ ClassCount(cls_table[i].name, <<sum_cat, sum_num, sum_dt>>) = 1

\* C7: the duplicate count auto_data_clean reports is the number of rows
\* that cleaning removed.
C7_DupCountIsRowsRemoved ==
    pc = "reported" =>
        report.dup_count = report.rows_before - report.rows_after

OnlyLeadingMissing(vals) ==
    \A i \in 1..Len(vals) : IsNa(vals[i]) => \A j \in 1..i : IsNa(vals[j])

C9_CallerTableUnchanged == caller = given

\* C10: a column whose fill or capping raised is named in a warning, and a
\* column that raises never ends the run with an exception.
C10_FailuresRecordedNeverFatal ==
    /\ \A c \in fill_raised \cup cap_raised :
           \E i \in 1..Len(warnings) : warnings[i].col = c
    /\ (~arg_null /\ ~HasDuplicates(CleanNames(given.names))) => pc # "raised"


\* The column as the fill loop met it: the cells as given, the kind as left
\* by datetime detection.
BeforeFill(c) == [given.cols[c] EXCEPT !.kind = df.cols[c].kind]

\* The cells a column should hold after imputation when the fill is chosen
\* by column type: datetime, numeric, other.
FillByType(col) ==
    IF IsDatetime(col) THEN FFill(col.vals)
    ELSE IF IsNumeric(col) THEN FillNa(col.vals, NumericFillValue(col.vals))
    ELSE FillNa(col.vals, Mode(col.vals))

\* C11: right after the fill loop, every column that had a missing value
\* (and whose fill did not raise) is forward-filled when it is a datetime
\* column, filled with its median or mean (by skewness) when it is numeric
\* of any storage type, and filled with its first mode otherwise.
C11_FillChosenByColumnType ==
    AfterImputation =>
        \A c \in 1..NCols(df) :
            (HasMissing(given.cols[c].vals) /\ c \notin fill_raised) =>
                df.cols[c].vals = FillByType(BeforeFill(c))


\* The position in table t of the first row equal to r.
FirstIndex(t, r) ==
    CHOOSE i \in 1..NRows(t) :
        Row(t, i) = r /\ \A j \in 1..(i - 1) : Row(t, j) # r

\* C12: the duplicate-elimination step leaves the distinct rows of the
\* table, each once, in the order of their first occurrences; the row count
\* does not grow and stays the same exactly when no row was a duplicate;
\* eliminating duplicates again changes nothing.
C12_DedupeKeepsFirstOccurrences ==
    [][DropDuplicatesStage =>
        /\ \A k, l \in 1..NRows(df') : Row(df', k) = Row(df', l) => k = l
        /\ \A i \in 1..NRows(df) : \E k \in 1..NRows(df') :
               Row(df', k) = Row(df, i)
        /\ \A k \in 1..NRows(df') : \E i \in 1..NRows(df) :
               Row(df', k) = Row(df, i)
        /\ \A k, l \in 1..NRows(df') :
               k < l => FirstIndex(df, Row(df', k)) < FirstIndex(df, Row(df', l))
        /\ NRows(df') <= NRows(df)
        /\ (NRows(df') = NRows(df)) <=> (DuplicatedCount(df) = 0)
        /\ DropDuplicates(df') = df'
        /\ NCols(df') = NCols(df) /\ df'.names = df.names
      ]_vars

\* C12 witness: duplicate elimination has removed a row from between rows
\* it kept (the table read x, y, x or alike: at least two rows stay).
C12_Witness ==
    /\ stages # <<>> /\ stages[Len(stages)] = "dedupe"
    /\ NRows(df) >= 2
    /\ NRows(df) < NRows(given)
    /\ \A c \in 1..NCols(df) : ~HasMissing(given.cols[c].vals)


\* The capping loop has run.
Capped == \E i \in 1..Len(stages) : stages[i] = "cap"

\* The cells of column c as the capping loop met them.
BeforeCap(c) == FillColumn(BeforeFill(c)).vals

\* Every cell of vals lies between the 1st and the 99th percentile of base;
\* a comparison with NaN is false.
WithinPercentiles(vals, base) ==
    LET lower == Quantile(base, LowerPercentile)
        upper == Quantile(base, UpperPercentile)
    IN \A i \in 1..Len(vals) :
           /\ ~IsNa(vals[i]) /\ ~IsNa(lower) /\ ~IsNa(upper)
           /\ lower <= vals[i]
           /\ vals[i] <= upper

\* The largest cell of the example column 1, 2, 3, 4, 1000 is below 1000.
OutlierCapped ==
    (given \in ExampleTables /\ Capped) =>
        \A i \in 1..NRows(df) : df.cols[1].vals[i] < 1000 * Scale

\* C13 as stated: from the capping step to the returned table, every cell
\* of every numeric column lies between the 1st and 99th percentile of the
\* column before capping; the column 1, 2, 3, 4, 1000 ends below 1000.
C13_CappedWithinPercentiles ==
    /\ Capped =>
          \A c \in 1..NCols(df) :
              IsNumeric(df.cols[c]) =>
                  WithinPercentiles(df.cols[c].vals, BeforeCap(c))
    /\ OutlierCapped

\* C13 as amended: the same for every numeric column that holds a value
\* and on which neither the fill nor the capping raised.
C13_CappedWithinPercentilesUnlessSkipped ==
    /\ Capped =>
          \A c \in 1..NCols(df) :
              ( /\ IsNumeric(df.cols[c])
                /\ NonMissing(given.cols[c].vals) # <<>>
                /\ c \notin fill_raised \cup cap_raised ) =>
                  WithinPercentiles(df.cols[c].vals, BeforeCap(c))
    /\ OutlierCapped

\* C13 witness: the column 1, 2, 3, 4, 1000 has been returned with its
\* largest cell capped between 4 and 1000.
C13_Witness ==
    /\ pc = "returned"
    /\ given \in ExampleTables
    /\ NRows(df) = 5
    /\ df.cols[1].vals[5] > 4 * Scale
    /\ df.cols[1].vals[5] < 1000 * Scale


\* The labels observed in the encoded column.
Observed == {enc_col[i] : i \in {j \in 1..Len(enc_col) : ~IsNa(enc_col[j])}}

\* The retained mapping is a bijection between the codes 0, 1, ... and the
\* labels observed, in the sorted order of the labels.
MappingIsBijection ==
    /\ DOMAIN enc_mapping = 0..(Cardinality(Observed) - 1)
    /\ {enc_mapping[code] : code \in DOMAIN enc_mapping} = Observed
    /\ \A c, d \in DOMAIN enc_mapping :
           c < d => enc_mapping[c] < enc_mapping[d]

\* Decoding the code of cell i gives the label of the cell, and encoding
\* that label again (the code of any cell that holds it) gives the code.
RoundTrip(i) ==
    /\ enc_codes[i] \in DOMAIN enc_mapping
    /\ enc_mapping[enc_codes[i]] = enc_col[i]
    /\ \A j \in 1..Len(enc_col) :
           enc_col[j] = enc_mapping[enc_codes[i]] => enc_codes[j] = enc_codes[i]

\* C14 as stated: the mapping is a bijection between the 0-based codes and
\* the observed labels in sorted order, and every code that appears in the
\* encoded column decodes to a label that encodes to the same code.
C14_EncodingRoundTrip ==
    enc_pc = "encoded" =>
        /\ MappingIsBijection
        /\ Len(enc_codes) = Len(enc_col)
        /\ \A i \in 1..Len(enc_codes) : RoundTrip(i)

\* C14 as amended: the same, for every code of a cell that is not missing;
\* a missing cell has the code -1, which the mapping does not hold.
C14_EncodingRoundTripOfLabels ==
    enc_pc = "encoded" =>
        /\ MappingIsBijection
        /\ Len(enc_codes) = Len(enc_col)
        /\ \A i \in 1..Len(enc_codes) :
               IF IsNa(enc_col[i])
               THEN enc_codes[i] = MissingCode /\ MissingCode \notin DOMAIN enc_mapping
               ELSE RoundTrip(i)

\* C14 witness: a column with a missing cell and two labels, the larger
\* label first, has been encoded.
C14_Witness ==
    /\ enc_pc = "encoded"
    /\ \E i, j, k \in 1..Len(enc_col) :
           /\ i < j
           /\ ~IsNa(enc_col[i]) /\ ~IsNa(enc_col[j]) /\ IsNa(enc_col[k])
           /\ enc_col[i] > enc_col[j]
           /\ enc_codes[i] > enc_codes[j]


\* C15: generate_ai_summary always returns; when the remote call fails or
\* returns no usable content the insights are the fixed default list; and
\* for a table that is not empty the list returned has at least 3 entries.
C15_AtLeastThreeInsights ==
    ai_pc = "returned" =>
        /\ (~ai_nodata /\ CallRaises(ai_reply)) => ai_insights = DefaultInsights
        /\ Len(DefaultInsights) >= 3
        /\ ~ai_nodata => Len(ai_insights) >= 3


\* The largest score of the call.
TopScore ==
    CHOOSE m \in {det_scores[c] : c \in 1..Len(det_scores)} :
        \A c \in 1..Len(det_scores) : det_scores[c] <= m

\* C16: on a table, detect_dataset_category returns the sector with the
\* highest score, the first declared among those that tie for it, and the
\* General / Other label when every score is zero.
C16_HighestScoreFirstDeclared ==
    (det_pc = "returned" /\ ~det_null) =>
        /\ Len(det_scores) = Len(category_keywords)
        /\ IF TopScore = 0
           THEN det_result = "General / Other"
           ELSE \E c \in 1..Len(det_scores) :
                   /\ det_scores[c] = TopScore
                   /\ \A d \in 1..(c - 1) : det_scores[d] < TopScore
                   /\ det_result = category_keywords[c].category

\* C16 witness: two sectors tie for a positive highest score and the one
\* declared first has been returned.
C16_Witness ==
    /\ det_pc = "returned"
    /\ ~det_null
    /\ TopScore > 0
    /\ \E c, d \in 1..Len(det_scores) :
           /\ c < d
           /\ det_scores[c] = TopScore
           /\ det_scores[d] = TopScore
           /\ det_result = category_keywords[c].category


\* The number of occurrences of the cleaned name of position i before i.
EarlierOccurrences(i) ==
    Cardinality({j \in 1..(i - 1) : CleanName(nm_cols[j]) = CleanName(nm_cols[i])})

\* C17: the normalizer keeps the first occurrence of a cleaned name (the
\* empty name included) and turns its k-th later occurrence into name_k;
\* "Customer Name", "Age", "Income ($)", "Income ($)" become
\* customer_name, age, income, income_1.
C17_LaterOccurrencesNumbered ==
    nm_pc \in {"normalized", "renormalized", "eda_normalized"} =>
        /\ Len(nm_out) = Len(nm_cols)
        /\ \A i \in 1..Len(nm_out) :
               nm_out[i] =
                   IF EarlierOccurrences(i) = 0 THEN CleanName(nm_cols[i])
                   ELSE CleanName(nm_cols[i]) \o <<"_">>
                            \o Decimal(EarlierOccurrences(i))
        /\ nm_cols = ExampleNames =>
               nm_out = << <<"c", "u", "s", "t", "o", "m", "e", "r", "_",
                             "n", "a", "m", "e">>,
                           <<"a", "g", "e">>,
                           <<"i", "n", "c", "o", "m", "e">>,
                           <<"i", "n", "c", "o", "m", "e", "_", "1">> >>

\* C17 witness: the example index has been normalized.
C17_Witness ==
    /\ nm_pc = "normalized"
    /\ nm_cols = ExampleNames
    /\ nm_out[3] = <<"i", "n", "c", "o", "m", "e">>
    /\ nm_out[4] = <<"i", "n", "c", "o", "m", "e", "_", "1">>


\* Duplicate elimination has run.
Deduped == \E i \in 1..Len(stages) : stages[i] = "dedupe"

\* C18: at every point of a cleaning run the working table has the columns
\* of the table given, every column as long as the others, and the rows of
\* the table given until duplicate elimination, which can only remove rows.
C18_CountsChangeOnlyInDedupe ==
    stages # <<>> =>
        /\ NCols(df) = NCols(given)
        /\ Len(df.names) = NCols(given)
        /\ \A c \in 1..NCols(df) : Len(df.cols[c].vals) = NRows(df)
        /\ IF Deduped THEN NRows(df) <= NRows(given)
           ELSE NRows(df) = NRows(given)

\* C18 witness: normalization, datetime detection, imputation, capping and
\* the NaN cleanup have all run on a table of two columns and two rows and
\* changed its cells, and the counts are those of the table given.
C18_Witness ==
    /\ stages # <<>> /\ stages[Len(stages)] = "fillna"
    /\ NCols(df) = 2 /\ NRows(df) = 2
    /\ NCols(given) = 2 /\ NRows(given) = 2
    /\ \A c \in 1..2 : df.cols[c].vals # given.cols[c].vals


\* The fill records that name column c of the table given.
RecordsOf(c) ==
    {k \in 1..Len(report.missing_summary) :
        report.missing_summary[k].column = df_before.names[c]}

\* C19: auto_data_clean shows exactly one fill record for every column of
\* the input with a missing value, none for the others, and the record
\* names the fill clean_data_core applied to the column.
C19_FillRecordNamesAppliedMethod ==
    pc = "reported" =>
        \A c \in 1..NCols(given) :
            IF HasMissing(given.cols[c].vals)
            THEN /\ Cardinality(RecordsOf(c)) = 1
                 /\ \A k \in RecordsOf(c) :
                        report.missing_summary[k].fill_method =
                            AppliedFillMethod(BeforeFill(c))
            ELSE RecordsOf(c) = {}


\* The {user, ai} entries of the invocations that succeeded, in call order.
Successes(log) ==
    LET ok == SelectSeq(log, LAMBDA e : e.ok)
    IN [k \in 1..Len(ok) |-> [user |-> ok[k].user, ai |-> ok[k].ai]]

\* C20: every invocation of groq_guided_chat issues one remote call and no
\* more; chat_history only grows at its end, holds one entry per successful
\* invocation in call order, and is left as it is by a failed one, which
\* displays an error; render_chat has displayed the last 5 entries.
C20_ChatHistoryAppendOnly ==
    /\ [](/\ chat_calls = Len(chat_log)
          /\ chat_history = Successes(chat_log)
          /\ chat_errors = Len(chat_log) - Len(chat_history)
          /\ Len(chat_shown) <= ShownLimit
          /\ \A k \in 1..Len(chat_shown) :
                 chat_shown[k] =
                     chat_history[Len(chat_history) - Len(chat_shown) + k]
          /\ Len(chat_shown) < ShownLimit => chat_shown = chat_history)
    /\ [][/\ chat_calls' <= chat_calls + 1
          /\ IsPrefix(chat_history, chat_history')
          /\ Len(chat_history') <= Len(chat_history) + 1
          /\ GuidedChatFails => chat_history' = chat_history]_vars

\* C20 witness: after six successful invocations and a failed one, the
\* history holds six entries and the last five are displayed.
C20_Witness ==
    /\ Len(chat_history) = 6
    /\ chat_errors = 1
    /\ chat_calls = 7
    /\ ~chat_log[3].ok
    /\ Len(chat_shown) = 5
    /\ chat_shown[1] = chat_history[2]


\* A page run stored something under the key: the key is new, or what it
\* holds has changed.
SetNow(key) ==
    /\ Has(session', key)
    /\ Has(session, key) => session'[key] # session[key]

Members(list) == {list[i] : i \in 1..Len(list)}

\* C22: the second pass of the EDA classifier adds no column: every column
\* of auto_cats is in cat_cols already, cat_cols is the same list before
\* and after the pass, and cat_cols and num_cols share no column after both
\* passes.
C22_SecondPassAddsNothing ==
    /\ [][EdaSecondPass =>
            /\ Members(auto_cats') \subseteq Members(cat_cols)
            /\ cat_cols' = cat_cols]_vars
    /\ [](cls_pc \in {"second_pass", "summarized"} =>
            /\ Members(auto_cats) \subseteq Members(cat_cols)
            /\ Members(cat_cols) \cap Members(num_cols) = {})

\* C22 witness: after the second pass, a table with a numeric column of 2
\* to 10 distinct values, found by both passes, beside a numeric column
\* that the first pass put in num_cols.
C22_Witness ==
    /\ cls_pc = "second_pass"
    /\ Len(cls_table) = 2
    /\ auto_cats = <<cls_table[1].name>>
    /\ cat_cols = <<cls_table[1].name>>
    /\ num_cols = <<cls_table[2].name>>
    /\ cls_table[1].dtype = "int64"
    /\ cls_table[1].nunique = AutoCatMax


\* The key and the list of the last entry of sector_recommendations.
GeneralEntry == sector_recommendations[Len(sector_recommendations)]

\* C23: for every label detect_dataset_category returns, show_next_steps
\* takes the "general" key and its list: the lowered label is none of the
\* keys marketing, finance, retail, healthcare.
C23_NextStepsAlwaysGeneral ==
    det_pc = "shown" =>
        /\ steps_key = <<"g", "e", "n", "e", "r", "a", "l">>
        /\ steps_recs = GeneralEntry.recs
        /\ \A k \in 1..(Len(sector_recommendations) - 1) :
               sector_recommendations[k].key # Lower(LabelChars(det_result))

\* C23 witness: show_next_steps has run with the Finance / Banking label,
\* returned for a table with a loan column.
C23_Witness ==
    /\ det_pc = "shown"
    /\ det_result = "Finance / Banking"
    /\ det_cols = << <<"l", "o", "a", "n">> >>
    /\ steps_recs[1] = "Predictive modeling & forecasting"


====
